---- MODULE Spec2Model ----
(***************************************************************************)
(* A model of the nom-json-parser crate: the recursive-descent JSON        *)
(* grammar of src/parser.rs (built from nom 7 combinators) and the entry   *)
(* point parse of src/lib.rs.                                              *)
(*                                                                         *)
(* A text is a sequence of character codes.  Every parser is an operator   *)
(* P(s, i): s is the whole text and i the position (1-based) at which the  *)
(* parser is started; the remaining input of the Rust code is the suffix   *)
(* of s that starts at i.  A parser returns a record                       *)
(*    kind  : "Ok", "Error" (nom Err::Error, recoverable), "Failure" (nom  *)
(*            Err::Failure, raised by cut) or "Panic" (a Rust panic, which *)
(*            unwinds through every combinator and aborts the call)        *)
(*    pos   : on Ok the position of the remaining input; otherwise the     *)
(*            position at which the innermost parser failed                *)
(*    val   : the parsed value on Ok                                       *)
(*    trace : the VerboseError list, innermost entry first                 *)
(*    log   : the attempts made by the alternations and the containers     *)
(***************************************************************************)
EXTENDS Integers, Sequences, FiniteSets, TLC

(***************************************************************************)
(* Characters                                                              *)
(***************************************************************************)
Code ==
    ("{" :> 123) @@ ("}" :> 125) @@ ("[" :> 91) @@ ("]" :> 93) @@
    ("," :> 44) @@ (":" :> 58) @@ ("\"" :> 34) @@ ("\\" :> 92) @@
    ("/" :> 47) @@ (" " :> 32) @@ ("\n" :> 10) @@ ("\r" :> 13) @@
    ("\t" :> 9) @@ ("+" :> 43) @@ ("-" :> 45) @@ ("." :> 46) @@
    ("0" :> 48) @@ ("1" :> 49) @@ ("2" :> 50) @@ ("3" :> 51) @@
    ("4" :> 52) @@ ("5" :> 53) @@ ("8" :> 56) @@ ("D" :> 68) @@ ("E" :> 69) @@
    ("a" :> 97) @@ ("b" :> 98) @@ ("e" :> 101) @@ ("f" :> 102) @@
    ("i" :> 105) @@ ("l" :> 108) @@ ("n" :> 110) @@ ("q" :> 113) @@
    ("r" :> 114) @@ ("s" :> 115) @@ ("t" :> 116) @@ ("u" :> 117) @@
    ("x" :> 120) @@ ("y" :> 121) @@ ("DEL" :> 127) @@ ("BS" :> 8) @@
    ("FF" :> 12)

\* The text spelled by a sequence of character names.
T(names) == [k \in 1..Len(names) |-> Code[names[k]]]

(***************************************************************************)
(* Results                                                                 *)
(***************************************************************************)
NoVal == [t |-> "None", v |-> <<>>]

OkR(pos, val, log) ==
    [kind |-> "Ok", pos |-> pos, val |-> val, trace |-> <<>>, log |-> log]

\* Err::Error(E::from_error_kind(input, kind)) / E::from_char(input, c)
ErrR(at, what, log) ==
    [kind |-> "Error", pos |-> at, val |-> NoVal,
     trace |-> <<[at |-> at, ctx |-> FALSE, what |-> what]>>, log |-> log]

PanicR(at, log) ==
    [kind |-> "Panic", pos |-> at, val |-> NoVal, trace |-> <<>>, log |-> log]

\* nom::error::context: add_context on Err::Error and on Err::Failure
context(label, at, r) ==
    IF r.kind \in {"Error", "Failure"}
    THEN [r EXCEPT !.trace = Append(@, [at |-> at, ctx |-> TRUE, what |-> label])]
    ELSE r

\* The error of a failed nom alt: VerboseError::or keeps the error of the
\* last alternative, to which alt appends (input, ErrorKind::Alt).
alt_error(at, last, log) ==
    [last EXCEPT !.trace = Append(@, [at |-> at, ctx |-> FALSE, what |-> "Alt"]),
                 !.log = log]

\* nom::combinator::cut turns Err::Error into Err::Failure
cut(r) == IF r.kind = "Error" THEN [r EXCEPT !.kind = "Failure"] ELSE r

(***************************************************************************)
(* Lexical primitives                                                      *)
(***************************************************************************)
\* Run(p, s, i) is the call of the parser function named p on the input that
\* starts at position i of s; it is defined after the functions it calls.
RECURSIVE Run(_, _, _)

\* tag(t): the text t must be the prefix of the input
tag(t, s, i) ==
    IF i + Len(t) - 1 <= Len(s) /\ SubSeq(s, i, i + Len(t) - 1) = t
    THEN OkR(i + Len(t), t, <<>>)
    ELSE ErrR(i, "Tag", <<>>)

\* char(c)
char(c, s, i) ==
    IF i <= Len(s) /\ s[i] = c THEN OkR(i + 1, c, <<>>) ELSE ErrR(i, "Char", <<>>)

IsWhitespace(ch) == ch \in {Code[" "], Code["\n"], Code["\r"], Code["\t"]}

RECURSIVE take_while_ws(_, _)
take_while_ws(s, i) ==
    IF i <= Len(s) /\ IsWhitespace(s[i]) THEN take_while_ws(s, i + 1) ELSE i

\* take_while never fails: zero characters is a match
parse_whitespace(s, i) ==
    LET j == take_while_ws(s, i) IN OkR(j, SubSeq(s, i, j - 1), <<>>)

IsDigit(ch) == ch \in 48..57

\* tag_no_case over ASCII letters
ToLower(ch) == IF ch \in 65..90 THEN ch + 32 ELSE ch

tag_no_case(t, s, i) ==
    IF i + Len(t) - 1 <= Len(s)
       /\ \A k \in 1..Len(t) : ToLower(s[i + k - 1]) = ToLower(t[k])
    THEN OkR(i + Len(t), t, <<>>)
    ELSE ErrR(i, "Tag", <<>>)

RECURSIVE digit0_end(_, _)
digit0_end(s, i) ==
    IF i <= Len(s) /\ IsDigit(s[i]) THEN digit0_end(s, i + 1) ELSE i

RECURSIVE DigitsValue(_)
DigitsValue(ds) ==
    IF ds = <<>> THEN 0
    ELSE 10 * DigitsValue(SubSeq(ds, 1, Len(ds) - 1)) + (ds[Len(ds)] - 48)

\* A decimal m * 10^e in lowest form: equal floats have equal forms.
RECURSIVE Normalize(_, _)
Normalize(m, e) ==
    IF m = 0 THEN [cls |-> "finite", m |-> 0, e |-> 0]
    ELSE IF m % 10 = 0 THEN Normalize(m \div 10, e + 1)
    ELSE [cls |-> "finite", m |-> m, e |-> e]

IsSign(s, i) == i <= Len(s) /\ s[i] \in {Code["+"], Code["-"]}

\* opt(alt((char('+'), char('-'))))
opt_sign_end(s, i) == IF IsSign(s, i) THEN i + 1 ELSE i

\* alt((digit1 ('.' digit0)?, '.' digit1)): the end of the mantissa that
\* starts at a, or 0 when there is none
float_mantissa_end(s, a) ==
    LET b == digit0_end(s, a)
    IN  IF b <= Len(s) /\ s[b] = Code["."]
        THEN IF digit0_end(s, b + 1) = a + 1 THEN 0 ELSE digit0_end(s, b + 1)
        ELSE IF b = a THEN 0 ELSE b

\* opt(tuple((alt((char('e'), char('E'))), opt(sign), cut(digit1)))): the end
\* of the exponent that starts at m (m itself when there is none), or -1
\* when the digits under cut are missing
float_exponent_end(s, m) ==
    IF m <= Len(s) /\ s[m] \in {Code["e"], Code["E"]}
    THEN IF digit0_end(s, opt_sign_end(s, m + 1)) = opt_sign_end(s, m + 1)
         THEN -1
         ELSE digit0_end(s, opt_sign_end(s, m + 1))
    ELSE m

\* The first position of lit that holds a character of cs, Len(lit) + 1 if none
IndexOf(lit, cs) ==
    IF \E k \in 1..Len(lit) : lit[k] \in cs
    THEN CHOOSE k \in 1..Len(lit) :
            lit[k] \in cs /\ \A j \in 1..(k - 1) : lit[j] \notin cs
    ELSE Len(lit) + 1

\* The signed integer a text of an optional sign and digits spells
SignedValue(ds) ==
    IF ds # <<>> /\ ds[1] = Code["-"] THEN 0 - DigitsValue(SubSeq(ds, 2, Len(ds)))
    ELSE IF ds # <<>> /\ ds[1] = Code["+"] THEN DigitsValue(SubSeq(ds, 2, Len(ds)))
    ELSE DigitsValue(ds)

\* The digits of a mantissa text without its sign and its point
MantissaDigits(mant) ==
    LET body == IF IsSign(mant, 1) THEN SubSeq(mant, 2, Len(mant)) ELSE mant
    IN  SubSeq(body, 1, IndexOf(body, {Code["."]}) - 1)
            \o SubSeq(body, IndexOf(body, {Code["."]}) + 1, Len(body))

FractionLength(mant) ==
    IF IndexOf(mant, {Code["."]}) > Len(mant) THEN 0
    ELSE Len(mant) - IndexOf(mant, {Code["."]})

\* str::parse::<f64> of a recognised literal
parse_to_f64(lit) ==
    LET ePos == IndexOf(lit, {Code["e"], Code["E"]})
        mant == SubSeq(lit, 1, ePos - 1)
    IN  Normalize(
            IF mant[1] = Code["-"] THEN 0 - DigitsValue(MantissaDigits(mant))
            ELSE DigitsValue(MantissaDigits(mant)),
            SignedValue(SubSeq(lit, ePos + 1, Len(lit))) - FractionLength(mant))

\* nom::number::complete::recognize_float followed by str::parse::<f64>:
\*   sign? (digit1 ('.' digit0)? | '.' digit1) (('e'|'E') sign? cut(digit1))?
recognize_float(s, i) ==
    LET m == float_mantissa_end(s, opt_sign_end(s, i))
        e == float_exponent_end(s, m)
    IN  IF m = 0 THEN ErrR(i, "Float", <<>>)
        ELSE IF e < 0 THEN cut(ErrR(i, "Float", <<>>))
        ELSE OkR(e, parse_to_f64(SubSeq(s, i, e - 1)), <<>>)

\* nom::number::complete::double: recognize_float, else "nan", "inf", "infinity"
parse_number(s, i) ==
    LET f   == Run("recognize_float", s, i)
        nan == tag_no_case(T(<<"n", "a", "n">>), s, i)
        inf == tag_no_case(T(<<"i", "n", "f">>), s, i)
    IN  IF f.kind # "Error" THEN f
        ELSE IF nan.kind = "Ok"
        THEN OkR(nan.pos, [cls |-> "nan", m |-> 0, e |-> 0], <<>>)
        ELSE IF inf.kind = "Ok"
        THEN OkR(inf.pos, [cls |-> "inf", m |-> 0, e |-> 0], <<>>)
        ELSE alt_error(i, ErrR(i, "Float", <<>>), <<>>)

parse_bool(s, i) ==
    LET f == tag(T(<<"f", "a", "l", "s", "e">>), s, i)
        t == tag(T(<<"t", "r", "u", "e">>), s, i)
    IN  IF f.kind = "Ok" THEN OkR(f.pos, FALSE, <<>>)
        ELSE IF t.kind = "Ok" THEN OkR(t.pos, TRUE, <<>>)
        ELSE alt_error(i, t, <<>>)

parse_null(s, i) ==
    LET n == tag(T(<<"n", "u", "l", "l">>), s, i)
    IN  IF n.kind = "Ok" THEN OkR(n.pos, [t |-> "Null", v |-> <<>>], <<>>) ELSE n

(***************************************************************************)
(* Strings                                                                 *)
(***************************************************************************)
\* char::is_ascii_control: U+0000..U+001F and U+007F
IsAsciiControl(ch) == ch \in 0..31 \/ ch = 127

StopsNormal(ch) == ch = Code["\\"] \/ ch = Code["\""] \/ IsAsciiControl(ch)

RECURSIVE take_till_end(_, _)
take_till_end(s, i) ==
    IF i <= Len(s) /\ ~StopsNormal(s[i]) THEN take_till_end(s, i + 1) ELSE i

\* take_till1: at least one character
normal_str(s, i) ==
    LET j == take_till_end(s, i)
    IN  IF j = i THEN ErrR(i, "TakeTill1", <<>>)
        ELSE OkR(j, SubSeq(s, i, j - 1), <<>>)

IsAsciiHexdigit(ch) == ch \in 48..57 \/ ch \in 65..70 \/ ch \in 97..102

HexDigitValue(ch) ==
    IF ch \in 48..57 THEN ch - 48
    ELSE IF ch \in 65..70 THEN ch - 55
    ELSE ch - 87

\* The predicate handed to take_while_m_n by hex_char
HexCharPredicate(ch) == IsAsciiHexdigit(ch) \/ ch = Code["u"]

RECURSIVE take_while_m_n_end(_, _, _)
take_while_m_n_end(s, i, n) ==
    IF n > 0 /\ i <= Len(s) /\ HexCharPredicate(s[i])
    THEN take_while_m_n_end(s, i + 1, n - 1)
    ELSE i

\* u32::from_str_radix(s, 16): -1 stands for Err
RECURSIVE from_str_radix(_)
from_str_radix(ds) ==
    IF ds = <<>> THEN 0
    ELSE LET hi == from_str_radix(SubSeq(ds, 1, Len(ds) - 1))
         IN  IF hi < 0 \/ ~IsAsciiHexdigit(ds[Len(ds)]) THEN -1
             ELSE 16 * hi + HexDigitValue(ds[Len(ds)])

\* std::char::from_u32: -1 stands for None (a surrogate is no char)
from_u32(v) == IF v \in 55296..57343 \/ v > 1114111 THEN -1 ELSE v

hex_char(s, i) ==
    LET u    == tag(T(<<"u">>), s, i)
        j    == take_while_m_n_end(s, u.pos, 4)
        n    == from_str_radix(SubSeq(s, u.pos, j - 1))
        c    == from_u32(n)
    IN  IF u.kind # "Ok" THEN context("hex_char", i, u)
        ELSE IF j - u.pos < 4
        THEN context("hex_char", i, ErrR(u.pos, "TakeWhileMN", <<>>))
        ELSE IF n < 0 THEN PanicR(u.pos, <<>>)      \* Result::unwrap on Err
        ELSE IF c < 0 THEN PanicR(u.pos, <<>>)      \* Option::unwrap on None
        ELSE OkR(j, c, <<>>)

\* The character an escape letter decodes to, 0 when it is not in the table
EscapeTable(ch) ==
    IF ch = Code["\""] THEN Code["\""]
    ELSE IF ch = Code["\\"] THEN Code["\\"]
    ELSE IF ch = Code["/"] THEN Code["/"]
    ELSE IF ch = Code["b"] THEN 8
    ELSE IF ch = Code["f"] THEN 12
    ELSE IF ch = Code["n"] THEN Code["\n"]
    ELSE IF ch = Code["r"] THEN Code["\r"]
    ELSE IF ch = Code["t"] THEN Code["\t"]
    ELSE 0

escapable(s, i) ==
    LET h == Run("hex_char", s, i)
    IN  IF i <= Len(s) /\ EscapeTable(s[i]) # 0 THEN OkR(i + 1, EscapeTable(s[i]), <<>>)
        ELSE IF h.kind = "Error" THEN context("escape", i, alt_error(i, h, <<>>))
        ELSE context("escape", i, h)

\* nom::bytes::complete::escaped_transform(normal_str, '\\', escapable):
\* start is where the combinator was called, index the position of the loop
RECURSIVE escaped_transform(_, _, _, _)
escaped_transform(s, start, index, res) ==
    IF index > Len(s) THEN OkR(index, res, <<>>)
    ELSE LET n == Run("normal_str", s, index)
             t == Run("escapable", s, index + 1)
         IN  IF n.kind = "Ok"
             THEN IF n.pos > Len(s) THEN OkR(Len(s) + 1, res \o n.val, <<>>)
                  ELSE IF n.pos = start THEN OkR(index, res \o n.val, <<>>)
                  ELSE escaped_transform(s, start, n.pos, res \o n.val)
             ELSE IF s[index] = Code["\\"]
             THEN IF index >= Len(s) THEN ErrR(index, "EscapedTransform", <<>>)
                  ELSE IF t.kind = "Ok"
                  THEN IF t.pos > Len(s) THEN OkR(Len(s) + 1, Append(res, t.val), <<>>)
                       ELSE escaped_transform(s, start, t.pos, Append(res, t.val))
                  ELSE t
             ELSE IF index = start THEN ErrR(index, "EscapedTransform", <<>>)
             ELSE OkR(index, res, <<>>)

parse_str(s, i) == escaped_transform(s, i, i, <<>>)

parse_string(s, i) ==
    LET e  == tag(T(<<"\"", "\"">>), s, i)
        q1 == tag(T(<<"\"">>), s, i)
        b  == Run("parse_str", s, q1.pos)
        q2 == tag(T(<<"\"">>), s, b.pos)
        d  == IF q1.kind # "Ok" THEN q1
              ELSE IF b.kind # "Ok" THEN b
              ELSE IF q2.kind # "Ok" THEN q2
              ELSE OkR(q2.pos, b.val, <<>>)
    IN  IF e.kind = "Ok" THEN OkR(e.pos, <<>>, <<>>)
        ELSE IF d.kind = "Error" THEN context("string", i, alt_error(i, d, <<>>))
        ELSE context("string", i, d)

(***************************************************************************)
(* Values, containers and the root                                         *)
(***************************************************************************)
JsonString(str) == [t |-> "String", v |-> str]
JsonBool(b)     == [t |-> "Bool", v |-> b]
JsonNumber(n)   == [t |-> "Number", v |-> n]
JsonObject(m)   == [t |-> "Object", v |-> m]
JsonArray(a)    == [t |-> "Array", v |-> a]

\* map(p, f): f applied to the value of a successful p
map_value(r, val) == IF r.kind = "Ok" THEN [r EXCEPT !.val = val] ELSE r

\* The alternatives of parse_value and of parse_root, in the order of the code
ValueAlts == <<"string", "bool", "number", "null", "object", "array">>
\* A root that accepts every value (a variant that C3 must tell apart)
RootAltsAnyValue == ValueAlts

RootAlts  == <<"object", "array">>

\* An alternation that goes on where the failed alternative stopped (a
\* variant that C10 must tell apart)
AltNextWhereFailed(input, failed) == failed.pos

\* alt hands every alternative a clone of its own input: the position at
\* which the alternative after a failed one (failed) is started
AltNext(input, failed) == input

\* A mapping that keeps the first value of a key (a variant that C5 must
\* tell apart)
RECURSIVE collect_first_wins(_)
collect_first_wins(list) ==
    IF list = <<>> THEN [k \in {} |-> NoVal]
    ELSE LET m    == collect_first_wins(SubSeq(list, 1, Len(list) - 1))
             last == list[Len(list)]
         IN  [k \in (DOMAIN m) \cup {last[1]} |->
                 IF k \in DOMAIN m THEN m[k] ELSE last[2]]

\* The list of key/value pairs collected into a HashMap: inserting a key that
\* is present replaces its value
RECURSIVE collect(_)
collect(list) ==
    IF list = <<>> THEN [k \in {} |-> NoVal]
    ELSE LET m    == collect(SubSeq(list, 1, Len(list) - 1))
             last == list[Len(list)]
         IN  [k \in (DOMAIN m) \cup {last[1]} |->
                 IF k = last[1] THEN last[2] ELSE m[k]]

\* A list that keeps the separator consumed (a variant that C6 must tell
\* apart)
ListKeepsSeparator(i, sep, f) == sep.pos

\* separated_list0: the remaining input it returns when the element after a
\* matched separator fails with Err::Error (i: before the separator,
\* sep: the separator's result, f: the element's result)
ListBacktrack(i, sep, f) == i

RECURSIVE alt(_, _, _, _, _, _, _)
RECURSIVE separated_list0_loop(_, _, _, _, _)

\* One alternative of an alt, started at position at
Branch(name, s, at) ==
    CASE name = "string" ->
            LET r == Run("parse_string", s, at) IN map_value(r, JsonString(r.val))
      [] name = "bool" ->
            LET r == Run("parse_bool", s, at) IN map_value(r, JsonBool(r.val))
      [] name = "number" ->
            LET r == Run("parse_number", s, at) IN map_value(r, JsonNumber(r.val))
      [] name = "null" -> Run("parse_null", s, at)
      [] name = "object" ->
            LET r == Run("parse_object", s, at) IN map_value(r, JsonObject(r.val))
      [] name = "array" ->
            LET r == Run("parse_array", s, at) IN map_value(r, JsonArray(r.val))

\* nom's alt over the alternatives alts, called at position input: the k-th
\* alternative is started at position at; tried lists the attempts made (the
\* alternative, where it was started, whether it matched, where it ended)
\* and t is the variant of the value the alt returned
alt(prod, alts, s, input, k, at, tried) ==
    LET r      == Branch(alts[k], s, at)
        tried2 == Append(tried, [alt |-> alts[k], at |-> at, ok |-> r.kind = "Ok",
                                 end |-> r.pos])
        entry  == [prod |-> prod, at |-> input, tried |-> tried2, t |-> r.val.t]
        rest   == alt(prod, alts, s, input, k + 1, AltNext(input, r), tried2)
    IN  IF r.kind # "Error" THEN [r EXCEPT !.log = <<entry>> \o @]
        ELSE IF k = Len(alts) THEN alt_error(input, r, <<entry>> \o r.log)
        ELSE [rest EXCEPT !.log = r.log \o @]

parse_value(s, i) ==
    LET w1 == parse_whitespace(s, i)
        v  == alt("value", ValueAlts, s, w1.pos, 1, w1.pos, <<>>)
        w2 == parse_whitespace(s, v.pos)
    IN  IF v.kind = "Ok" THEN [v EXCEPT !.pos = w2.pos]
        ELSE context("value", i, v)

\* The element parser of the list of an array:
\* delimited(parse_whitespace, parse_value, parse_whitespace)
array_element(s, i) ==
    LET v == Run("parse_value", s, parse_whitespace(s, i).pos)
    IN  IF v.kind = "Ok" THEN [v EXCEPT !.pos = parse_whitespace(s, v.pos).pos]
        ELSE v

\* The key of a pair: delimited(parse_whitespace, parse_string, parse_whitespace)
object_key(s, i) ==
    LET key == Run("parse_string", s, parse_whitespace(s, i).pos)
    IN  IF key.kind = "Ok" THEN [key EXCEPT !.pos = parse_whitespace(s, key.pos).pos]
        ELSE key

\* The element parser of the list of an object:
\* separated_pair(key, char(':'), parse_value)
object_pair(s, i) ==
    LET key == Run("object_key", s, i)
        c   == char(Code[":"], s, key.pos)
        v   == Run("parse_value", s, c.pos)
    IN  IF key.kind # "Ok" THEN key
        ELSE IF c.kind # "Ok" THEN c
        ELSE IF v.kind # "Ok" THEN v
        ELSE [v EXCEPT !.val = <<key.val, v.val>>]

\* The loop of separated_list0 after the first element: elem names the
\* element parser, i is the remaining input, res the elements so far
separated_list0_loop(elem, s, i, res, log) ==
    LET sep  == char(Code[","], s, i)
        f    == Run(elem, s, sep.pos)
        back == ListBacktrack(i, sep, f)
    IN  IF sep.kind # "Ok" THEN OkR(i, res, log)
        ELSE IF f.kind = "Error"
        THEN OkR(back, res,
                 log \o f.log \o <<[prod |-> "sep", at |-> i, back |-> back]>>)
        ELSE IF f.kind # "Ok" THEN [f EXCEPT !.log = log \o @]
        ELSE separated_list0_loop(elem, s, f.pos, Append(res, f.val), log \o f.log)

separated_list0(elem, s, i) ==
    LET f == Run(elem, s, i)
    IN  IF f.kind = "Error" THEN OkR(i, <<>>, f.log)
        ELSE IF f.kind # "Ok" THEN f
        ELSE separated_list0_loop(elem, s, f.pos, <<f.val>>, f.log)

array_list(s, i)  == separated_list0("array_element", s, i)
object_list(s, i) == separated_list0("object_pair", s, i)

\* delimited(char(open), list, char(close)) under the context label kind
container(kind, open, close, s, i) ==
    LET o == char(open, s, i)
        l == Run(IF kind = "array" THEN "array_list" ELSE "object_list", s, o.pos)
        c == char(close, s, l.pos)
        log == l.log \o <<[prod |-> "close", at |-> l.pos, kind |-> kind]>>
    IN  IF o.kind # "Ok" THEN context(kind, i, o)
        ELSE IF l.kind # "Ok" THEN context(kind, i, l)
        ELSE IF c.kind # "Ok" THEN context(kind, i, [c EXCEPT !.log = log])
        ELSE OkR(c.pos, l.val, log)

parse_array(s, i) == container("array", Code["["], Code["]"], s, i)

object_container(s, i) == container("object", Code["{"], Code["}"], s, i)

parse_object(s, i) ==
    LET r == Run("object_container", s, i)
    IN  map_value(r, collect(r.val))

parse_root(s, i) ==
    LET w1 == parse_whitespace(s, i)
        v  == alt("root", RootAlts, s, w1.pos, 1, w1.pos, <<>>)
        w2 == parse_whitespace(s, v.pos)
    IN  IF v.kind = "Ok" THEN [v EXCEPT !.pos = w2.pos] ELSE v

(***************************************************************************)
(* The entry point                                                         *)
(***************************************************************************)
\* The line and the column convert_error prints for a position of the text
LineOf(s, at) == 1 + Cardinality({k \in 1..(at - 1) : k <= Len(s) /\ s[k] = Code["\n"]})

ColumnOf(s, at) ==
    LET nls == {k \in 1..(at - 1) : k <= Len(s) /\ s[k] = Code["\n"]}
        last == IF nls = {} THEN 0 ELSE CHOOSE k \in nls : \A j \in nls : j <= k
    IN  at - last

\* nom::error::convert_error: one located line per entry of the trace; for
\* an empty input no location is printed
convert_error(s, trace) ==
    [k \in 1..Len(trace) |->
        [what |-> trace[k].what, ctx |-> trace[k].ctx,
         line |-> IF s = <<>> THEN 0 ELSE LineOf(s, trace[k].at),
         column |-> IF s = <<>> THEN 0 ELSE ColumnOf(s, trace[k].at)]]

\* The outcome of parse: Ok(value), Err(message) or a panic that aborts the
\* call.  msg is "failure", "trailing" (the fixed message of lib.rs line 15)
\* or "syntax" (the rendering of the trace, kept in diag).
Outcome(kind, msg, val, diag, log) ==
    [kind |-> kind, msg |-> msg, val |-> val, diag |-> diag, log |-> log]

\* The call of a parser function by its name
Run(p, s, i) ==
    CASE p = "recognize_float" -> recognize_float(s, i)
      [] p = "normal_str"   -> normal_str(s, i)
      [] p = "hex_char"     -> hex_char(s, i)
      [] p = "escapable"    -> escapable(s, i)
      [] p = "parse_str"    -> parse_str(s, i)
      [] p = "parse_string" -> parse_string(s, i)
      [] p = "parse_bool"   -> parse_bool(s, i)
      [] p = "parse_number" -> parse_number(s, i)
      [] p = "parse_null"   -> parse_null(s, i)
      [] p = "parse_value"  -> parse_value(s, i)
      [] p = "array_element" -> array_element(s, i)
      [] p = "object_key"   -> object_key(s, i)
      [] p = "object_pair"  -> object_pair(s, i)
      [] p = "array_list"   -> array_list(s, i)
      [] p = "object_list"  -> object_list(s, i)
      [] p = "object_container" -> object_container(s, i)
      [] p = "parse_array"  -> parse_array(s, i)
      [] p = "parse_object" -> parse_object(s, i)
      [] p = "parse_root"   -> parse_root(s, i)

\* A match without the arm for a non-empty remainder (a variant that C4 must
\* tell apart)
parse_match_ignoring_rest(s, r) ==
        IF r.kind = "Panic" THEN Outcome("Panic", "", NoVal, <<>>, r.log)
        ELSE IF r.kind = "Failure" THEN Outcome("Err", "failure", NoVal, <<>>, r.log)
        ELSE IF r.kind = "Error"
        THEN Outcome("Err", "syntax", NoVal, convert_error(s, r.trace), r.log)
        ELSE Outcome("Ok", "", r.val, <<>>, r.log)

\* The match of parse on the result r of parse_root
parse_match(s, r) ==
        IF r.kind = "Panic" THEN Outcome("Panic", "", NoVal, <<>>, r.log)
        ELSE IF r.kind = "Failure" THEN Outcome("Err", "failure", NoVal, <<>>, r.log)
        ELSE IF r.kind = "Error"
        THEN Outcome("Err", "syntax", NoVal, convert_error(s, r.trace), r.log)
        ELSE IF Len(s) - r.pos + 1 > 0 THEN Outcome("Err", "trailing", NoVal, <<>>, r.log)
        ELSE Outcome("Ok", "", r.val, <<>>, r.log)

parse(s) == parse_match(s, Run("parse_root", s, 1))

(***************************************************************************)
(* The program as a state machine: a caller assembles a text from          *)
(* fragments and then calls one of the parsers on it.                      *)
(***************************************************************************)
VARIABLES
    family,     \* the kind of text being assembled
    text,       \* the text assembled so far
    nfrags,     \* the number of fragments it was assembled from
    called,     \* the function that was called on the text, "none" before
    result      \* what the call returned

vars == <<family, text, nfrags, called, result>>

MaxDocFrags == 5
MaxObjFrags == 5
MaxStrFrags == 3
MaxScalarFrags == 3

\* Structure of documents: delimiters, separators, whitespace, a number
DocFrags ==
    { T(<<"{">>), T(<<"}">>), T(<<"[">>), T(<<"]">>), T(<<",">>), T(<<" ">>),
      T(<<"1">>) }

\* Objects: whole key/value pairs
ObjFrags ==
    { T(<<"{">>), T(<<"}">>), T(<<",">>), T(<<" ">>),
      T(<<"\"", "a", "\"", ":", "1">>),
      T(<<"\"", "a", "\"", " ", ":", "2">>),
      T(<<"\"", "b", "\"", ":", "[", "]">>) }

\* Strings: quotes, runs of normal characters, escapes, malformed escapes
StrFrags ==
    { T(<<"\"">>), T(<<"a", "b">>), T(<<"\n">>), T(<<"DEL">>),
      T(<<"\\", "n">>), T(<<"\\", "\"">>), T(<<"\\", "\\">>), T(<<"\\", "/">>),
      T(<<"\\", "b">>), T(<<"\\", "f">>), T(<<"\\", "r">>), T(<<"\\", "t">>),
      T(<<"\\", "u", "1", "2", "3", "4">>), T(<<"\\", "u", "D", "8", "0", "0">>),
      T(<<"\\", "u", "u", "1", "2", "3">>), T(<<"\\", "u", "1", "2">>),
      T(<<"\\", "q">>), T(<<"\\">>) }

\* Scalars standing alone, and the delimiters of an array around them
ScalarFrags ==
    { T(<<" ">>), T(<<"\n">>), T(<<"\"", "a", "\"">>), T(<<"\"", "\\", "n", "\"">>),
      T(<<"t", "r", "u", "e">>), T(<<"f", "a", "l", "s", "e">>),
      T(<<"n", "u", "l", "l">>), T(<<"1">>), T(<<"-", "2", ".", "5", "e", "1">>),
      T(<<"1", "e">>), T(<<"[">>), T(<<"]">>) }

\* "str" assembles a string literal, "strdoc" a string literal that is the
\* first element of an array
Families == {"doc", "obj", "str", "strdoc", "scalar"}

Frags(fam) ==
    CASE fam = "doc" -> DocFrags
      [] fam = "obj" -> ObjFrags
      [] fam = "str" -> StrFrags
      [] fam = "strdoc" -> StrFrags \cup {T(<<"]">>)}
      [] fam = "scalar" -> ScalarFrags

MaxFrags(fam) ==
    CASE fam = "doc" -> MaxDocFrags
      [] fam = "obj" -> MaxObjFrags
      [] fam = "str" -> MaxStrFrags
      [] fam = "strdoc" -> MaxStrFrags
      [] fam = "scalar" -> MaxScalarFrags

\* The text a family starts from
Prefix(fam) == IF fam = "strdoc" THEN T(<<"[", "\"">>) ELSE <<>>

InitFamily(fam) ==
    /\ family = fam
    /\ text = Prefix(fam)
    /\ nfrags = 0
    /\ called = "none"
    /\ result = NoVal

Init == \E fam \in Families : InitFamily(fam)

\* The caller extends the text by one fragment
AppendFragment ==
    /\ called = "none"
    /\ nfrags < MaxFrags(family)
    /\ \E f \in Frags(family) : text' = text \o f
    /\ nfrags' = nfrags + 1
    /\ UNCHANGED <<family, called, result>>

CallParse ==
    /\ called = "none"
    /\ called' = "parse"
    /\ result' = parse(text)
    /\ UNCHANGED <<family, text, nfrags>>

\* The unit tests of parser.rs call the parser functions directly
CallParseValue ==
    /\ called = "none"
    /\ called' = "parse_value"
    /\ result' = Run("parse_value", text, 1)
    /\ UNCHANGED <<family, text, nfrags>>

CallParseArray ==
    /\ called = "none"
    /\ called' = "parse_array"
    /\ result' = Run("parse_array", text, 1)
    /\ UNCHANGED <<family, text, nfrags>>

CallParseObject ==
    /\ called = "none"
    /\ called' = "parse_object"
    /\ result' = Run("parse_object", text, 1)
    /\ UNCHANGED <<family, text, nfrags>>

CallParseString ==
    /\ called = "none"
    /\ called' = "parse_string"
    /\ result' = Run("parse_string", text, 1)
    /\ UNCHANGED <<family, text, nfrags>>

Next ==
    \/ AppendFragment
    \/ CallParse
    \/ CallParseValue
    \/ CallParseArray
    \/ CallParseObject
    \/ CallParseString

Spec == Init /\ [][Next]_vars

\* The same program on the texts of some of the families only
SpecDoc    == InitFamily("doc") /\ [][Next]_vars
SpecObj    == InitFamily("obj") /\ [][Next]_vars
SpecValues ==
    (InitFamily("scalar") \/ InitFamily("str")) /\ [][Next]_vars
SpecStructure ==
    (InitFamily("doc") \/ InitFamily("obj")) /\ [][Next]_vars

(***************************************************************************)
(* The grammar of the specification (section 6), read as a predictive      *)
(* recogniser that also builds the tree the document denotes.  It is the   *)
(* reference the parser is compared with, written from the grammar alone.  *)
(***************************************************************************)
GOk(pos, val) == [ok |-> TRUE, pos |-> pos, val |-> val]
GFail == [ok |-> FALSE, pos |-> 0, val |-> NoVal]

GrammarWs == {32, 9, 10, 13}

GrammarEscapes ==
    (34 :> 34) @@ (92 :> 92) @@ (47 :> 47) @@ (98 :> 8) @@ (102 :> 12) @@
    (110 :> 10) @@ (114 :> 13) @@ (116 :> 9)

GrammarHexDigits ==
    [c \in 48..57 |-> c - 48] @@ [c \in 97..102 |-> c - 87] @@ [c \in 65..70 |-> c - 55]

GrammarHexValue(d) ==
    4096 * GrammarHexDigits[d[1]] + 256 * GrammarHexDigits[d[2]]
        + 16 * GrammarHexDigits[d[3]] + GrammarHexDigits[d[4]]

RECURSIVE GrammarSkipWs(_, _)
GrammarSkipWs(s, i) ==
    IF i <= Len(s) /\ s[i] \in GrammarWs THEN GrammarSkipWs(s, i + 1) ELSE i

\* (normal_char+ | escape)* '"', started after the opening quote
RECURSIVE GrammarChars(_, _, _)
GrammarChars(s, i, acc) ==
    IF i > Len(s) THEN GFail
    ELSE IF s[i] = 34 THEN GOk(i + 1, acc)
    ELSE IF s[i] = 92
    THEN IF i + 1 > Len(s) THEN GFail
         ELSE IF s[i + 1] \in DOMAIN GrammarEscapes
         THEN GrammarChars(s, i + 2, Append(acc, GrammarEscapes[s[i + 1]]))
         ELSE IF /\ s[i + 1] = 117
                 /\ i + 5 <= Len(s)
                 /\ \A k \in 2..5 : s[i + k] \in DOMAIN GrammarHexDigits
         THEN GrammarChars(s, i + 6,
                           Append(acc, GrammarHexValue(SubSeq(s, i + 2, i + 5))))
         ELSE GFail
    ELSE IF s[i] \in 0..31 THEN GFail
    ELSE GrammarChars(s, i + 1, Append(acc, s[i]))

GrammarString(s, i) ==
    IF i <= Len(s) /\ s[i] = 34 THEN GrammarChars(s, i + 1, <<>>) ELSE GFail

RECURSIVE GrammarDigitsEnd(_, _)
GrammarDigitsEnd(s, i) ==
    IF i <= Len(s) /\ s[i] \in 48..57 THEN GrammarDigitsEnd(s, i + 1) ELSE i

\* sign? digits frac? exp?
GrammarNumber(s, i) ==
    LET signed == i <= Len(s) /\ s[i] \in {43, 45}
        a      == IF signed THEN i + 1 ELSE i
        b      == GrammarDigitsEnd(s, a)
        frac   == b <= Len(s) /\ s[b] = 46 /\ GrammarDigitsEnd(s, b + 1) > b + 1
        c      == IF frac THEN GrammarDigitsEnd(s, b + 1) ELSE b
        esign  == c + 1 <= Len(s) /\ s[c + 1] \in {43, 45}
        e0     == IF esign THEN c + 2 ELSE c + 1
        exp    == c <= Len(s) /\ s[c] \in {101, 69} /\ GrammarDigitsEnd(s, e0) > e0
        d      == IF exp THEN GrammarDigitsEnd(s, e0) ELSE c
        fracDs == IF frac THEN SubSeq(s, b + 1, c - 1) ELSE <<>>
        mant   == DigitsValue(SubSeq(s, a, b - 1) \o fracDs)
        expo   == IF exp THEN DigitsValue(SubSeq(s, e0, d - 1)) ELSE 0
    IN  IF b = a THEN GFail
        ELSE GOk(d, JsonNumber(Normalize(
                 IF signed /\ s[i] = 45 THEN 0 - mant ELSE mant,
                 (IF exp /\ esign /\ s[c + 1] = 45 THEN 0 - expo ELSE expo)
                     - Len(fracDs))))

GrammarLiteral(lit, val, s, i) ==
    IF i + Len(lit) - 1 <= Len(s) /\ SubSeq(s, i, i + Len(lit) - 1) = lit
    THEN GOk(i + Len(lit), val)
    ELSE GFail

\* The mapping a sequence of pairs denotes: a key maps to the value of its
\* last occurrence (section 3)
GrammarMapping(pairs) ==
    [k \in {pairs[n][1] : n \in 1..Len(pairs)} |->
        pairs[CHOOSE n \in 1..Len(pairs) :
                 /\ pairs[n][1] = k
                 /\ \A m \in (n + 1)..Len(pairs) : pairs[m][1] # k][2]]

RECURSIVE GrammarValue(_, _), GrammarValues(_, _, _), GrammarPairs(_, _, _)

\* value ("," value)* "]", started at a value
GrammarValues(s, i, acc) ==
    LET v == GrammarValue(s, i)
    IN  IF ~v.ok THEN GFail
        ELSE IF v.pos <= Len(s) /\ s[v.pos] = 44
        THEN GrammarValues(s, v.pos + 1, Append(acc, v.val))
        ELSE IF v.pos <= Len(s) /\ s[v.pos] = 93
        THEN GOk(v.pos + 1, Append(acc, v.val))
        ELSE GFail

\* pair ("," pair)* ws "}", started at a pair; the value is the pair list
GrammarPairs(s, i, acc) ==
    LET k  == GrammarString(s, GrammarSkipWs(s, i))
        c  == GrammarSkipWs(s, k.pos)
        v  == GrammarValue(s, c + 1)
        e  == GrammarSkipWs(s, v.pos)
    IN  IF ~k.ok THEN GFail
        ELSE IF ~(c <= Len(s) /\ s[c] = 58) THEN GFail
        ELSE IF ~v.ok THEN GFail
        ELSE IF v.pos <= Len(s) /\ s[v.pos] = 44
        THEN GrammarPairs(s, v.pos + 1, Append(acc, <<k.val, v.val>>))
        ELSE IF e <= Len(s) /\ s[e] = 125
        THEN GOk(e + 1, Append(acc, <<k.val, v.val>>))
        ELSE GFail

\* array := "[" (value ("," value)*)? "]"
GrammarArrayElems(s, i) ==
    IF ~(i <= Len(s) /\ s[i] = 91) THEN GFail
    ELSE IF i + 1 <= Len(s) /\ s[i + 1] = 93 THEN GOk(i + 2, <<>>)
    ELSE GrammarValues(s, i + 1, <<>>)

\* object := "{" ws (pair ("," pair)*)? ws "}"; the value is the pair list
GrammarObjectPairs(s, i) ==
    LET w == GrammarSkipWs(s, i + 1)
    IN  IF ~(i <= Len(s) /\ s[i] = 123) THEN GFail
        ELSE IF w <= Len(s) /\ s[w] = 125 THEN GOk(w + 1, <<>>)
        ELSE GrammarPairs(s, i + 1, <<>>)

GrammarArray(s, i) ==
    LET r == GrammarArrayElems(s, i)
    IN  IF r.ok THEN GOk(r.pos, JsonArray(r.val)) ELSE GFail

GrammarObject(s, i) ==
    LET r == GrammarObjectPairs(s, i)
    IN  IF r.ok THEN GOk(r.pos, JsonObject(GrammarMapping(r.val))) ELSE GFail

\* value := ws (string | "true" | "false" | number | "null" | object | array) ws
GrammarValue(s, i) ==
    LET a == GrammarSkipWs(s, i)
        str == GrammarString(s, a)
        r == IF a > Len(s) THEN GFail
             ELSE IF s[a] = 34
             THEN IF str.ok THEN GOk(str.pos, JsonString(str.val)) ELSE GFail
             ELSE IF s[a] = 116
             THEN GrammarLiteral(<<116, 114, 117, 101>>, JsonBool(TRUE), s, a)
             ELSE IF s[a] = 102
             THEN GrammarLiteral(<<102, 97, 108, 115, 101>>, JsonBool(FALSE), s, a)
             ELSE IF s[a] = 110
             THEN GrammarLiteral(<<110, 117, 108, 108>>, [t |-> "Null", v |-> <<>>], s, a)
             ELSE IF s[a] = 123 THEN GrammarObject(s, a)
             ELSE IF s[a] = 91 THEN GrammarArray(s, a)
             ELSE GrammarNumber(s, a)
    IN  IF r.ok THEN GOk(GrammarSkipWs(s, r.pos), r.val) ELSE GFail

\* document := ws (object | array) ws, the whole text
GrammarDocument(s) ==
    LET a == GrammarSkipWs(s, 1)
        r == IF a <= Len(s) /\ s[a] = 123 THEN GrammarObject(s, a)
             ELSE GrammarArray(s, a)
    IN  IF r.ok /\ GrammarSkipWs(s, r.pos) = Len(s) + 1 THEN GOk(Len(s) + 1, r.val)
        ELSE GFail

ScalarVariants == {"String", "Bool", "Null", "Number"}

(***************************************************************************)
(* Texts the claims single out                                             *)
(***************************************************************************)
\* open ws^n close
EmptyContainerText(s, open, close) ==
    /\ Len(s) >= 2
    /\ s[1] = open
    /\ s[Len(s)] = close
    /\ \A k \in 2..(Len(s) - 1) : s[k] \in GrammarWs

\* The positions of s that lie outside the string literals
RECURSIVE OutsideStrings(_, _, _)
OutsideStrings(s, i, inStr) ==
    IF i > Len(s) THEN {}
    ELSE IF inStr
    THEN IF s[i] = 92 THEN OutsideStrings(s, i + 2, TRUE)
         ELSE OutsideStrings(s, i + 1, s[i] # 34)
    ELSE IF s[i] = 34 THEN OutsideStrings(s, i + 1, TRUE)
    ELSE {i} \cup OutsideStrings(s, i + 1, FALSE)

\* The separator commas after which, whitespace apart, a container is closed
TrailingCommas(s) ==
    {i \in OutsideStrings(s, 1, FALSE) :
        /\ s[i] = 44
        /\ GrammarSkipWs(s, i + 1) <= Len(s)
        /\ s[GrammarSkipWs(s, i + 1)] \in {93, 125}}

Without(s, i) == SubSeq(s, 1, i - 1) \o SubSeq(s, i + 1, Len(s))

\* '[' v1 ',' ... vn ',' ']' (n >= 0): an array of the grammar with one more
\* comma before its closing bracket
TrailingCommaArray(s) ==
    /\ Len(s) >= 3 /\ s[1] = 91 /\ s[Len(s)] = 93
    /\ \E i \in TrailingCommas(s) :
          /\ GrammarSkipWs(s, i + 1) = Len(s)
          /\ \/ GrammarArray(Without(s, i), 1).pos = Len(s)
             \/ \A k \in 2..(i - 1) : s[k] \in GrammarWs

\* '{' p1 ',' ... pn ',' '}' (n >= 0)
TrailingCommaObject(s) ==
    /\ Len(s) >= 3 /\ s[1] = 123 /\ s[Len(s)] = 125
    /\ \E i \in TrailingCommas(s) :
          /\ GrammarSkipWs(s, i + 1) = Len(s)
          /\ \/ GrammarObject(Without(s, i), 1).pos = Len(s)
             \/ \A k \in 2..(i - 1) : s[k] \in GrammarWs

\* What becomes of the string literal whose interior starts at i: "closed",
\* or the first reason it is no string of the grammar
RECURSIVE StringDefect(_, _)
StringDefect(s, i) ==
    IF i > Len(s) THEN "unterminated"
    ELSE IF s[i] = 34 THEN "closed"
    ELSE IF s[i] = 92
    THEN IF i + 1 > Len(s) THEN "unterminated"
         ELSE IF s[i + 1] \in DOMAIN GrammarEscapes THEN StringDefect(s, i + 2)
         ELSE IF s[i + 1] # 117 THEN "escape"
         ELSE IF /\ i + 5 <= Len(s)
                 /\ \A k \in 2..5 : s[i + k] \in DOMAIN GrammarHexDigits
         THEN StringDefect(s, i + 6)
         ELSE "hex"
    ELSE IF s[i] \in 0..31 THEN "control"
    ELSE StringDefect(s, i + 1)

DecoderFailures == {"unterminated", "escape", "hex"}

\* The position of the character found where the first key of the root
\* object is expected, 0 when the text does not start an object
FirstKeyPosition(s) ==
    IF GrammarSkipWs(s, 1) <= Len(s) /\ s[GrammarSkipWs(s, 1)] = 123
    THEN GrammarSkipWs(s, GrammarSkipWs(s, 1) + 1)
    ELSE 0

\* A character that cannot begin a quoted key stands where the first key of
\* the root object is expected
StrayFirstKey(s) ==
    /\ FirstKeyPosition(s) \in 1..Len(s)
    /\ s[FirstKeyPosition(s)] \notin {34, 125}

(***************************************************************************)
(* The claims                                                              *)
(***************************************************************************)

\* C1: every text the grammar of section 6 derives is parsed to Ok with the
\* tree the document denotes; no such text yields an error or aborts.
C1_GrammarAcceptedParses ==
    called = "parse" /\ GrammarDocument(text).ok
        => result.kind = "Ok" /\ result.val = GrammarDocument(text).val

\* C2: '{' ws^n '}' and '[' ws^n ']' are accepted for every n >= 0 by parse,
\* parse_object and parse_array, and yield the empty container.
C2_EmptyContainersAccepted ==
    /\ called = "parse" /\ EmptyContainerText(text, 123, 125)
          => result.kind = "Ok" /\ result.val = JsonObject(<<>>)
    /\ called = "parse_object" /\ EmptyContainerText(text, 123, 125)
          => result.kind = "Ok" /\ result.val = <<>>
    /\ called = "parse" /\ EmptyContainerText(text, 91, 93)
          => result.kind = "Ok" /\ result.val = JsonArray(<<>>)
    /\ called = "parse_array" /\ EmptyContainerText(text, 91, 93)
          => result.kind = "Ok" /\ result.val = <<>>

\* C3: an Ok of parse carries an Array or an Object, and a text that
\* parse_value accepts as a whole as one scalar is answered by parse with a
\* syntax error.
C3_RootIsContainer ==
    called = "parse" =>
        /\ result.kind = "Ok" => result.val.t \in {"Array", "Object"}
        /\ LET v == Run("parse_value", text, 1)
           IN  v.kind = "Ok" /\ v.pos = Len(text) + 1 /\ v.val.t \in ScalarVariants
                  => result.kind = "Err" /\ result.msg = "syntax"

C3_Witness ==
    /\ called = "parse"
    /\ result.kind = "Err"
    /\ Len(text) = 5
    /\ Run("parse_value", text, 1).kind = "Ok"
    /\ Run("parse_value", text, 1).pos = Len(text) + 1
    /\ Run("parse_value", text, 1).val = JsonString(<<97>>)

\* C4: when parse_root succeeds and leaves a non-empty remainder, parse
\* returns the trailing-data error; when it leaves nothing, parse returns
\* the tree; parse never returns Ok for a text whose last character that is
\* no whitespace is not the closing delimiter of the root.
C4_TrailingData ==
    called = "parse" =>
        LET r == Run("parse_root", text, 1)
        IN  /\ r.kind = "Ok" /\ r.pos <= Len(text)
                  => result.kind = "Err" /\ result.msg = "trailing"
                        /\ result.val = NoVal /\ result.diag = <<>>
            /\ r.kind = "Ok" /\ r.pos = Len(text) + 1
                  => result.kind = "Ok" /\ result.val = r.val
            /\ result.kind = "Ok"
                  => \E k \in 1..Len(text) :
                        /\ text[k] \in {93, 125}
                        /\ \A j \in (k + 1)..Len(text) : text[j] \in GrammarWs

C4_Witness ==
    /\ called = "parse"
    /\ result.kind = "Err" /\ result.msg = "trailing"
    /\ Run("parse_root", text, 1).kind = "Ok"
    /\ Run("parse_root", text, 1).pos = 4
    /\ Len(text) = 4
    /\ text[3] \in GrammarWs

\* C5: an object text that repeats a key is parsed to an Object with one
\* entry for that key, holding the value of the key's last occurrence in
\* document order; the other keys keep their values.
C5_LastKeyWins ==
    called \in {"parse", "parse_object"} /\ result.kind = "Ok"
            /\ GrammarObjectPairs(text, 1).ok =>
        LET pairs == GrammarObjectPairs(text, 1).val
            map   == IF called = "parse" THEN result.val.v ELSE result.val
        IN  /\ DOMAIN map = {pairs[n][1] : n \in 1..Len(pairs)}
            /\ \A n \in 1..Len(pairs) :
                  (\A m \in (n + 1)..Len(pairs) : pairs[m][1] # pairs[n][1])
                      => map[pairs[n][1]] = pairs[n][2]

C5_Witness ==
    /\ called = "parse"
    /\ result.kind = "Ok"
    /\ GrammarObjectPairs(text, 1).ok
    /\ LET pairs == GrammarObjectPairs(text, 1).val
       IN  /\ Len(pairs) = 2
           /\ pairs[1][1] = pairs[2][1]
           /\ pairs[1][2] # pairs[2][2]
           /\ result.val.v[pairs[1][1]] = pairs[2][2]

\* C6: a separator comma that is followed by the closing delimiter instead
\* of another element is never accepted: parse rejects every text that has
\* one, parse_array and parse_object reject '[' v1 ',' ... vn ',' ']' and
\* '{' p1 ',' ... pn ',' '}' and never consume such a comma, and the failure
\* carries no container.
C6_NoTrailingComma ==
    /\ called = "parse" /\ TrailingCommas(text) # {}
          => result.kind = "Err" /\ result.val = NoVal
    /\ called \in {"parse_array", "parse_object"} /\ result.kind = "Ok"
          => \A i \in TrailingCommas(text) : result.pos <= i
    /\ called = "parse_array" /\ TrailingCommaArray(text)
          => result.kind = "Error" /\ result.val = NoVal
    /\ called = "parse_object" /\ TrailingCommaObject(text)
          => result.kind = "Error" /\ result.val = NoVal

C6_Witness ==
    /\ called = "parse_array"
    /\ TrailingCommaArray(text)
    /\ Len(text) = 5
    /\ GrammarArray(Without(text, 4), 1).ok
    /\ result.kind = "Error"

\* C7: a quoted string made of runs of normal characters and of escapes of
\* the table is accepted by parse_string up to and including its closing
\* quote, and decoded to the runs and the escapes' characters in order.
C7_StringDecoded ==
    called = "parse_string" /\ GrammarString(text, 1).ok
        => /\ result.kind = "Ok"
           /\ result.pos = GrammarString(text, 1).pos
           /\ result.val = GrammarString(text, 1).val

\* C8: for an unterminated string, a backslash before a character that is
\* none of " \ / b f n r t u, and a \u that is not followed by four
\* hexadecimal digits, the string decoder fails and parse returns one
\* diagnostic and no value.
C8_StringFailuresReported ==
    /\ called = "parse_string" /\ Len(text) >= 1 /\ text[1] = 34
            /\ StringDefect(text, 2) \in DecoderFailures
          => result.kind \in {"Error", "Failure"}
    /\ called = "parse" /\ Len(text) >= 2 /\ text[1] = 91 /\ text[2] = 34
            /\ StringDefect(text, 3) \in DecoderFailures
          => result.kind = "Err" /\ result.val = NoVal

\* C9: when a character that cannot begin a quoted key stands where a key of
\* an object is expected, parse returns a syntax error whose context chain
\* names "object" together with "string" or "value" and whose innermost
\* entry is located at that character.
C9_StrayKeyDiagnostic ==
    called = "parse" /\ StrayFirstKey(text) =>
        /\ result.kind = "Err" /\ result.msg = "syntax"
        /\ \E k \in 1..Len(result.diag) :
              result.diag[k].ctx /\ result.diag[k].what = "object"
        /\ \E k \in 1..Len(result.diag) :
              result.diag[k].ctx /\ result.diag[k].what \in {"string", "value"}
        /\ result.diag[1].line = LineOf(text, FirstKeyPosition(text))
        /\ result.diag[1].column = ColumnOf(text, FirstKeyPosition(text))

C10_ValueOrder == <<"string", "bool", "number", "null", "object", "array">>
C10_RootOrder == <<"object", "array">>
C10_Variant ==
    [string |-> "String", bool |-> "Bool", number |-> "Number", null |-> "Null",
     object |-> "Object", array |-> "Array"]

\* C10: a failed attempt never advances the input.  Every alternative of
\* parse_value is started at the position after the leading whitespace, in
\* the order string, boolean, number, null, object, array, and both
\* alternatives of parse_root at one position; the first that succeeds gives
\* the result and ends the attempts; and when the element after a separator
\* fails, the closing delimiter is looked for at the separator.
C10_FailedAttemptsRestoreInput ==
    called \in {"parse", "parse_value", "parse_array", "parse_object"} =>
        \A n \in 1..Len(result.log) :
            LET e == result.log[n]
                order == IF e.prod = "value" THEN C10_ValueOrder ELSE C10_RootOrder
            IN  /\ e.prod \in {"value", "root"} =>
                    /\ Len(e.tried) \in 1..Len(order)
                    /\ e.at > Len(text) \/ text[e.at] \notin GrammarWs
                    /\ \A k \in 1..Len(e.tried) :
                          /\ e.tried[k].alt = order[k]
                          /\ e.tried[k].at = e.at
                          /\ e.tried[k].ok => /\ k = Len(e.tried)
                                              /\ e.t = C10_Variant[order[k]]
                /\ e.prod = "sep" =>
                    /\ text[e.at] = 44
                    /\ n < Len(result.log)
                    /\ result.log[n + 1].prod = "close"
                    /\ result.log[n + 1].at = e.at

C10_Witness ==
    /\ called = "parse_array"
    /\ \E n \in 1..Len(result.log) :
          /\ result.log[n].prod = "value"
          /\ Len(result.log[n].tried) = 6
          /\ result.log[n].tried[5].end > result.log[n].tried[5].at
          /\ result.log[n].tried[6].at = result.log[n].at
    /\ \E n \in 1..Len(result.log) : result.log[n].prod = "sep"
====
